---- MODULE Spec2Model ----
(***************************************************************************)
(* scripts/fetch-activity.py: fetch a user's GitHub activity page by page, *)
(* aggregate it into per-repository summaries, a 12-week histogram and a   *)
(* list of Pages sites, and write data/activity.json.                      *)
(*                                                                         *)
(* Strings the code compares, lowercases or splits are sequences of        *)
(* character codes; an ISO-8601 UTC timestamp is the pair <<day, second of *)
(* day>>, whose field-by-field order is the order of the strings.          *)
(***************************************************************************)
EXTENDS Integers, Sequences, FiniteSets, TLC

\* ---------------------------------------------------------------- bounds
\* The page size the fetchers ask for (per_page=100), scaled down.
PerPage == 2
\* Longest repository listing the remote holds.
MaxRepos == 3
\* Longest public event feed the remote holds.
MaxEvents == 2
\* Longest commit listing of one repository: one more than a page, so that
\* a listing can spill onto a second page.
MaxCommits == PerPage + 1

\* ------------------------------------------------------------- constants
GITHUB_USER == <<114, 97, 100, 97, 105, 107, 111>>                \* "radaiko"
WEEKS == 12
week_seconds == 7 * 24 * 60 * 60
day_seconds == 24 * 60 * 60
\* range(1, 4) of fetch_public_events
EventPages == 1..3
\* ".github.io"
GithubIoSuffix == <<46, 103, 105, 116, 104, 117, 98, 46, 105, 111>>
Slash == 47

\* ------------------------------------------------------- string helpers
\* str.lower() on ASCII codes
lower(s) == [i \in 1..Len(s) |-> IF s[i] \in 65..90 THEN s[i] + 32 ELSE s[i]]

\* Python's < on two sequences compared element by element (str, and the
\* field-wise order of fixed-width timestamps)
RECURSIVE SeqLess(_, _)
SeqLess(a, b) ==
    IF b = <<>> THEN FALSE
    ELSE IF a = <<>> THEN TRUE
    ELSE IF Head(a) < Head(b) THEN TRUE
    ELSE IF Head(a) > Head(b) THEN FALSE
    ELSE SeqLess(Tail(a), Tail(b))

\* repo_name.split("/")[0]
RECURSIVE SplitFirst(_)
SplitFirst(s) ==
    IF s = <<>> \/ Head(s) = Slash THEN <<>>
    ELSE <<Head(s)>> \o SplitFirst(Tail(s))

\* repo_name.split("/")[-1]
RECURSIVE SplitLast(_)
SplitLast(s) ==
    IF \A i \in 1..Len(s) : s[i] # Slash THEN s
    ELSE SplitLast(Tail(s))

\* ---------------------------------------------------------- timestamps
\* The timestamp string the API delivers for instant t, and now.isoformat()
Iso(t) == <<t \div day_seconds, t % day_seconds>>
\* datetime.fromisoformat(s.replace("Z", "+00:00")), as seconds
fromisoformat(s) == s[1] * day_seconds + s[2]

\* max(...) over a non-empty sequence of timestamp strings
RECURSIVE StrMaxFrom(_, _)
StrMaxFrom(best, rest) ==
    IF rest = <<>> THEN best
    ELSE StrMaxFrom(IF SeqLess(best, Head(rest)) THEN Head(rest) ELSE best,
                    Tail(rest))
StrMax(dates) == StrMaxFrom(Head(dates), Tail(dates))

\* int(x / y): Python's int() truncates toward zero
IntTrunc(x, y) == IF x >= 0 THEN x \div y ELSE -((-x) \div y)

\* week_index = int(age_seconds / week_seconds)
week_index(now_, date) == IntTrunc(now_ - fromisoformat(date), week_seconds)

\* A bucketing whose week index is rounded down instead of toward zero
AddToBucket_Floor(weekly, now_, date, n) ==
    LET wi == (now_ - fromisoformat(date)) \div week_seconds
    IN  IF 0 <= wi /\ wi < WEEKS
        THEN [weekly EXCEPT ![WEEKS - 1 - wi + 1] = @ + n]
        ELSE weekly

\* if 0 <= week_index < WEEKS: weekly_commits[WEEKS - 1 - week_index] += n
\* (the histogram is 1-based here: Python's index i is i + 1)
AddToBucket(weekly, now_, date, n) ==
    LET wi == week_index(now_, date)
    IN  IF 0 <= wi /\ wi < WEEKS
        THEN [weekly EXCEPT ![WEEKS - 1 - wi + 1] = @ + n]
        ELSE weekly

RECURSIVE SumSeq(_)
SumSeq(s) == IF s = <<>> THEN 0 ELSE Head(s) + SumSeq(Tail(s))

\* ------------------------------------------------------- ordered dict
DictHas(d, k) == \E i \in 1..Len(d) : d[i].fullName = k
DictIdx(d, k) == CHOOSE i \in 1..Len(d) : d[i].fullName = k
\* d[k] = v: a present key keeps its place, a new key goes last
DictSet(d, k, v) ==
    IF DictHas(d, k) THEN [d EXCEPT ![DictIdx(d, k)] = v] ELSE Append(d, v)

\* -------------------------------------------------------------- sorting
\* A sort that puts the fewest commits first
RepoBefore_Ascending(x, y) == x.commits <= y.commits

\* The key order of sorted(..., key=commits, reverse=True)
RepoBefore(x, y) == x.commits >= y.commits

\* Stable insertion of x behind every element that may stay before it
RECURSIVE InsertRepo(_, _)
InsertRepo(sorted, x) ==
    IF sorted = <<>> THEN <<x>>
    ELSE IF RepoBefore(Head(sorted), x)
         THEN <<Head(sorted)>> \o InsertRepo(Tail(sorted), x)
         ELSE <<x>> \o sorted

RECURSIVE SortRepos(_, _)
SortRepos(done, todo) ==
    IF todo = <<>> THEN done
    ELSE SortRepos(InsertRepo(done, Head(todo)), Tail(todo))

\* The key of pages_sites.sort
PageKey(p) == lower(p.name)

RECURSIVE InsertPage(_, _)
InsertPage(sorted, x) ==
    IF sorted = <<>> THEN <<x>>
    ELSE IF ~SeqLess(PageKey(x), PageKey(Head(sorted)))
         THEN <<Head(sorted)>> \o InsertPage(Tail(sorted), x)
         ELSE <<x>> \o sorted

RECURSIVE SortPages(_, _)
SortPages(done, todo) ==
    IF todo = <<>> THEN done
    ELSE SortPages(InsertPage(done, Head(todo)), Tail(todo))

\* ------------------------------------------------- the remote's data
app == <<97, 112, 112>>
Blog == <<66, 108, 111, 103>>
lib == <<108, 105, 98>>
docs == <<100, 111, 99, 115>>
org == <<111, 114, 103>>

\* One object of the /user/repos listing, with the fields main reads
RepoInfo(owner, name, has_pages, fork) ==
    [full_name |-> owner \o <<Slash>> \o name, name |-> name,
     owner |-> owner, has_pages |-> has_pages, fork |-> fork]

AppRepo == RepoInfo(GITHUB_USER, app, TRUE, FALSE)
BlogRepo == RepoInfo(GITHUB_USER, Blog, TRUE, FALSE)
RootRepo == RepoInfo(GITHUB_USER, GITHUB_USER \o GithubIoSuffix, TRUE, FALSE)
LibRepo == RepoInfo(org, lib, TRUE, TRUE)
DocsRepo == RepoInfo(org, docs, FALSE, FALSE)
RepoCatalog == {AppRepo, BlogRepo, RootRepo, LibRepo, DocsRepo}
FullNames == {r.full_name : r \in RepoCatalog}

\* The run's first clock reading, and the instants the remote's records carry
now0 == 20 * week_seconds
tOld == now0 - WEEKS * week_seconds - 1
tCut == now0 - WEEKS * week_seconds
tMid == now0 - 2 * week_seconds - 3
tRecent == now0 - 5
tFutNear == now0 + 3
tFutFar == now0 + week_seconds + 5

\* One object of a commit listing: commit["commit"]["author"]["date"]
Commit(t) == [date |-> Iso(t)]
\* One object of the event feed
Event(type, t, repo, commits) ==
    [type |-> type, created_at |-> Iso(t), repo |-> repo, commits |-> commits]

SeqsUpTo(S, n) == UNION {[1..k -> S] : k \in 0..n}
NoCommits == [f \in FullNames |-> <<>>]

Environment(token_, repos_, commits_, events_) ==
    [token |-> token_, repos |-> repos_, commits |-> commits_, events |-> events_]

\* Listings that vary the Pages flags, names and forks; the commits are fixed
PagesCommits ==
    [f \in FullNames |->
        IF f = AppRepo.full_name THEN <<Commit(tRecent)>>
        ELSE IF f = RootRepo.full_name THEN <<Commit(tMid), Commit(tRecent)>>
        ELSE IF f = DocsRepo.full_name THEN <<Commit(tCut)>>
        ELSE <<>>]
PagesEnvs ==
    {Environment(TRUE, l, PagesCommits, <<>>) : l \in SeqsUpTo(RepoCatalog, MaxRepos)}

\* Listings of one or two repositories (one of them twice) whose commits vary
CommitDates == {tCut, tMid, tRecent, tFutNear}
CommitListings ==
    {<<AppRepo>>, <<AppRepo, LibRepo>>, <<LibRepo, AppRepo>>, <<AppRepo, AppRepo>>}
CommitLists == SeqsUpTo({Commit(t) : t \in CommitDates}, MaxCommits)
CommitsEnvs ==
    {Environment(TRUE, l,
                 [f \in FullNames |->
                    IF f = AppRepo.full_name THEN a
                    ELSE IF f = LibRepo.full_name
                            /\ \E i \in 1..Len(l) : l[i] = LibRepo THEN b
                    ELSE <<>>],
                 <<>>) :
        l \in CommitListings,
        a \in CommitLists,
        b \in {c \in CommitLists : Len(c) <= 1}}

\* Event feeds
EventDates == {tOld, tCut, tMid, tRecent, tFutNear, tFutFar}
EventCatalog ==
    {Event("WatchEvent", tRecent, AppRepo.full_name, <<>>)}
    \cup {Event("PushEvent", t, r, c) :
            t \in EventDates,
            r \in {AppRepo.full_name, LibRepo.full_name},
            c \in {<<>>, <<"sha", "sha">>}}
\* A feed longer than the three pages fetch_public_events asks for
LongFeed ==
    [i \in 1..(3 * PerPage + 1) |->
        Event("WatchEvent", tRecent, AppRepo.full_name, <<>>)]
EventsEnvs ==
    {Environment(FALSE, <<>>, NoCommits, l) :
        l \in SeqsUpTo(EventCatalog, MaxEvents) \cup {LongFeed}}

\* ----------------------------------------------------------- the API
\* Page k of a listing, per_page records to a page
Page(list, k) ==
    SubSeq(list, (k - 1) * PerPage + 1,
           IF k * PerPage < Len(list) THEN k * PerPage ELSE Len(list))

\* What one api_get call does: return the parsed page, raise HTTPError (an
\* HTTP status), or raise URLError (no connection), which is no HTTPError
api_get(list, k) ==
    {[kind |-> "page", records |-> Page(list, k)],
     [kind |-> "HTTPError", records |-> <<>>],
     [kind |-> "URLError", records |-> <<>>]}

\* One pass of the while loop of fetch_all_repos / fetch_repo_commits on a
\* response that is no URLError
PagedStep(all_, r) ==
    IF r.kind = "HTTPError" THEN [stop |-> TRUE, all |-> all_]
    ELSE IF r.records = <<>> THEN [stop |-> TRUE, all |-> all_]
    ELSE [stop |-> Len(r.records) < PerPage, all |-> all_ \o r.records]

\* One pass of the for loop of fetch_public_events
EventsStep(all_, r, page) ==
    IF r.kind = "HTTPError" THEN [stop |-> TRUE, all |-> all_]
    ELSE IF r.records = <<>> THEN [stop |-> TRUE, all |-> all_]
    ELSE [stop |-> page + 1 \notin EventPages, all |-> all_ \o r.records]

\* ------------------------------------------------------------- state
VARIABLES
    env,             \* ACTIVITY_TOKEN and what the remote holds
    pc,              \* where main is
    now,             \* datetime.now(timezone.utc), in seconds
    page_num,        \* the running fetcher's page_num / page
    acc,             \* the running fetcher's all_repos / all_commits / all_events
    requests,        \* the pages the running fetcher has requested
    responses,       \* what each of those requests did
    all_repos,       \* main's all_repos
    repo_idx,        \* the place of repo_info in all_repos
    commits,         \* main's commits for repo_info
    events,          \* main's events
    event_idx,       \* the place of event in events
    repos,           \* main's repos dict, in insertion order
    weekly_commits,
    pages_sites,
    output,          \* data/activity.json: <<>> or <<the document>>
    seen,            \* <<full name, timestamp>> of every record aggregated
    fetched_commits, \* the commit lists fetched so far, one per listing entry
    prev             \* the document and the fetched data of the run before

vars == <<env, pc, now, page_num, acc, requests, responses, all_repos, repo_idx,
          commits, events, event_idx, repos, weekly_commits, pages_sites,
          output, seen, fetched_commits, prev>>

token == env.token

StartState ==
    /\ pc = "start"
    /\ page_num = 1
    /\ acc = <<>>
    /\ requests = <<>>
    /\ responses = <<>>
    /\ all_repos = <<>>
    /\ repo_idx = 1
    /\ commits = <<>>
    /\ events = <<>>
    /\ event_idx = 1
    /\ repos = <<>>
    /\ weekly_commits = [i \in 1..WEEKS |-> 0]
    /\ pages_sites = <<>>
    /\ seen = {}
    /\ fetched_commits = <<>>

Init ==
    /\ env \in PagesEnvs \cup CommitsEnvs \cup EventsEnvs
    /\ now = now0
    /\ output = <<>>
    /\ prev = <<>>
    /\ StartState

\* ------------------------------------------------------------- main
cutoff == now - WEEKS * week_seconds

\* The fetcher that starts: page 1, nothing accumulated
FetcherStarts ==
    /\ page_num' = 1
    /\ acc' = <<>>
    /\ requests' = <<>>
    /\ responses' = <<>>

\* main up to the choice of the path: the accumulators are made empty
main_start ==
    /\ pc = "start"
    /\ repos' = <<>>
    /\ weekly_commits' = [i \in 1..WEEKS |-> 0]
    /\ pages_sites' = <<>>
    /\ pc' = IF token THEN "fetch_all_repos" ELSE "fetch_public_events"
    /\ FetcherStarts
    /\ UNCHANGED <<env, now, all_repos, repo_idx, commits, events, event_idx,
                   output, seen, fetched_commits, prev>>

\* An exception no handler catches ends the process; nothing is written
Uncaught(r) ==
    /\ r.kind = "URLError"
    /\ pc' = "crashed"
    /\ requests' = Append(requests, page_num)
    /\ responses' = Append(responses, r)
    /\ UNCHANGED <<env, now, page_num, acc, all_repos, repo_idx, commits, events,
                   event_idx, repos, weekly_commits, pages_sites, output, seen,
                   fetched_commits, prev>>

\* One pass of fetch_all_repos's loop; on a break all_repos is returned
fetch_all_repos ==
    /\ pc = "fetch_all_repos"
    /\ \E r \in api_get(env.repos, page_num) :
        \/ Uncaught(r)
        \/ /\ r.kind # "URLError"
           /\ requests' = Append(requests, page_num)
           /\ responses' = Append(responses, r)
           /\ LET step == PagedStep(acc, r)
              IN  /\ acc' = step.all
                  /\ IF step.stop
                     THEN /\ all_repos' = step.all
                          /\ repo_idx' = 1
                          /\ page_num' = page_num
                          /\ pc' = IF step.all = <<>> THEN "finalise" ELSE "for_repo"
                     ELSE /\ page_num' = page_num + 1
                          /\ UNCHANGED <<all_repos, repo_idx, pc>>
           /\ UNCHANGED <<env, now, commits, events, event_idx, repos,
                          weekly_commits, pages_sites, output, seen,
                          fetched_commits, prev>>

repo_info == all_repos[repo_idx]

\* A Pages test that forgets the fork flag
IsPagesSite_IgnoresFork(info) ==
    /\ info.has_pages
    /\ info.name # GITHUB_USER \o GithubIoSuffix

\* The test of the Pages discovery
IsPagesSite(info) ==
    /\ info.has_pages /\ ~info.fork
    /\ info.name # GITHUB_USER \o GithubIoSuffix

\* The loop body up to the call of fetch_repo_commits: Pages discovery
for_repo ==
    /\ pc = "for_repo"
    /\ pages_sites' =
         IF IsPagesSite(repo_info)
         THEN Append(pages_sites, [name |-> repo_info.name])
         ELSE pages_sites
    /\ FetcherStarts
    /\ pc' = "fetch_repo_commits"
    /\ UNCHANGED <<env, now, all_repos, repo_idx, commits, events, event_idx,
                   repos, weekly_commits, output, seen, fetched_commits, prev>>

\* One pass of fetch_repo_commits's loop; on a break all_commits is returned
fetch_repo_commits ==
    /\ pc = "fetch_repo_commits"
    /\ \E r \in api_get(env.commits[repo_info.full_name], page_num) :
        \/ Uncaught(r)
        \/ /\ r.kind # "URLError"
           /\ requests' = Append(requests, page_num)
           /\ responses' = Append(responses, r)
           /\ LET step == PagedStep(acc, r)
              IN  /\ acc' = step.all
                  /\ IF step.stop
                     THEN /\ commits' = step.all
                          /\ page_num' = page_num
                          /\ pc' = "summarise"
                     ELSE /\ page_num' = page_num + 1
                          /\ UNCHANGED <<commits, pc>>
           /\ UNCHANGED <<env, now, all_repos, repo_idx, events, event_idx, repos,
                          weekly_commits, pages_sites, output, seen,
                          fetched_commits, prev>>

\* for commit in commits: bucket the commit
RECURSIVE BucketCommits(_, _, _)
BucketCommits(weekly, now_, cs) ==
    IF cs = <<>> THEN weekly
    ELSE BucketCommits(AddToBucket(weekly, now_, Head(cs).date, 1), now_, Tail(cs))

\* The RepoSummary main builds from a non-empty commit list
RepoSummary(info, cs) ==
    [fullName |-> info.full_name,
     name |-> info.name,
     owner |-> info.owner,
     isOwn |-> info.owner = GITHUB_USER,
     commits |-> Len(cs),
     lastActivity |-> StrMax([i \in 1..Len(cs) |-> cs[i].date])]

\* The rest of the loop body: skip a repository without commits, else write
\* its summary and bucket its commits
summarise ==
    /\ pc = "summarise"
    /\ IF commits = <<>>
       THEN UNCHANGED <<repos, weekly_commits, seen>>
       ELSE /\ repos' = DictSet(repos, repo_info.full_name,
                                RepoSummary(repo_info, commits))
            /\ weekly_commits' = BucketCommits(weekly_commits, now, commits)
            /\ seen' = seen \cup {<<repo_info.full_name, commits[i].date>> :
                                    i \in 1..Len(commits)}
    /\ fetched_commits' = Append(fetched_commits, commits)
    /\ repo_idx' = repo_idx + 1
    /\ pc' = IF repo_idx + 1 > Len(all_repos) THEN "finalise" ELSE "for_repo"
    /\ UNCHANGED <<env, now, page_num, acc, requests, responses, all_repos,
                   commits, events, event_idx, pages_sites, output, prev>>

\* One pass of fetch_public_events's loop; on a break all_events is returned
fetch_public_events ==
    /\ pc = "fetch_public_events"
    /\ \E r \in api_get(env.events, page_num) :
        \/ Uncaught(r)
        \/ /\ r.kind # "URLError"
           /\ requests' = Append(requests, page_num)
           /\ responses' = Append(responses, r)
           /\ LET step == EventsStep(acc, r, page_num)
              IN  /\ acc' = step.all
                  /\ IF step.stop
                     THEN /\ events' = step.all
                          /\ event_idx' = 1
                          /\ page_num' = page_num
                          /\ pc' = IF step.all = <<>> THEN "finalise" ELSE "for_event"
                     ELSE /\ page_num' = page_num + 1
                          /\ UNCHANGED <<events, event_idx, pc>>
           /\ UNCHANGED <<env, now, all_repos, repo_idx, commits, repos,
                          weekly_commits, pages_sites, output, seen,
                          fetched_commits, prev>>

event == events[event_idx]

\* An event the loop body does not skip
Qualifies(e, cutoff_) ==
    /\ e.type = "PushEvent"
    /\ ~(fromisoformat(e.created_at) < cutoff_)

\* commit_count of the loop body
CommitCount(e) == IF Len(e.commits) = 0 THEN 1 ELSE Len(e.commits)

\* repos after the loop body has run on a qualifying event
AccumulateEvent(d, e) ==
    LET repo_name == e.repo
        fresh == [fullName |-> repo_name,
                  name |-> SplitLast(repo_name),
                  owner |-> SplitFirst(repo_name),
                  isOwn |-> SplitFirst(repo_name) = GITHUB_USER,
                  commits |-> 0,
                  lastActivity |-> e.created_at]
        d1 == IF DictHas(d, repo_name) THEN d ELSE Append(d, fresh)
        i == DictIdx(d1, repo_name)
        d2 == [d1 EXCEPT ![i].commits = @ + CommitCount(e)]
    IN  IF SeqLess(d2[i].lastActivity, e.created_at)
        THEN [d2 EXCEPT ![i].lastActivity = e.created_at]
        ELSE d2

\* The loop body of the fallback path on one event
for_event ==
    /\ pc = "for_event"
    /\ IF Qualifies(event, cutoff)
       THEN /\ repos' = AccumulateEvent(repos, event)
            /\ weekly_commits' = AddToBucket(weekly_commits, now,
                                             event.created_at, CommitCount(event))
            /\ seen' = seen \cup {<<event.repo, event.created_at>>}
       ELSE UNCHANGED <<repos, weekly_commits, seen>>
    /\ event_idx' = event_idx + 1
    /\ pc' = IF event_idx + 1 > Len(events) THEN "finalise" ELSE "for_event"
    /\ UNCHANGED <<env, now, page_num, acc, requests, responses, all_repos,
                   repo_idx, commits, events, pages_sites, output,
                   fetched_commits, prev>>

\* sum(1 for w in weekly_commits if w > 0)
RECURSIVE CountPositive(_)
CountPositive(s) ==
    IF s = <<>> THEN 0
    ELSE (IF Head(s) > 0 THEN 1 ELSE 0) + CountPositive(Tail(s))

RECURSIVE SumCommits(_)
SumCommits(rs) == IF rs = <<>> THEN 0 ELSE Head(rs).commits + SumCommits(Tail(rs))

\* A document whose total is taken from the repository summaries
Document_TotalFromRepos ==
    [generatedAt |-> Iso(now),
     repos |-> SortRepos(<<>>, repos),
     weeklyCommits |-> weekly_commits,
     totalCommits |-> SumCommits(repos),
     activeWeeks |-> CountPositive(weekly_commits),
     pages |-> SortPages(<<>>, pages_sites)]

\* A document stamped with the day of the run only
Document_DateOnly ==
    [generatedAt |-> Iso(now - (now % day_seconds)),
     repos |-> SortRepos(<<>>, repos),
     weeklyCommits |-> weekly_commits,
     totalCommits |-> SumSeq(weekly_commits),
     activeWeeks |-> CountPositive(weekly_commits),
     pages |-> SortPages(<<>>, pages_sites)]

\* The document main writes
Document ==
    [generatedAt |-> Iso(now),
     repos |-> SortRepos(<<>>, repos),
     weeklyCommits |-> weekly_commits,
     totalCommits |-> SumSeq(weekly_commits),
     activeWeeks |-> CountPositive(weekly_commits),
     pages |-> SortPages(<<>>, pages_sites)]

\* Sort, total and write data/activity.json
finalise ==
    /\ pc = "finalise"
    /\ pages_sites' = SortPages(<<>>, pages_sites)
    /\ output' = <<Document>>
    /\ pc' = "done"
    /\ UNCHANGED <<env, now, page_num, acc, requests, responses, all_repos,
                   repo_idx, commits, events, event_idx, repos, weekly_commits,
                   seen, fetched_commits, prev>>

Next ==
    \/ main_start
    \/ fetch_all_repos
    \/ for_repo
    \/ fetch_repo_commits
    \/ summarise
    \/ fetch_public_events
    \/ for_event
    \/ finalise

Spec == Init /\ [][Next]_vars

\* The script is run again later against the same remote; the file of the
\* run before stays until finalise overwrites it
Rerun ==
    /\ pc = "done"
    /\ prev = <<>>
    /\ \E later \in {1, week_seconds} : now' = now + later
    /\ prev' = <<[now |-> now, output |-> output[1], all_repos |-> all_repos,
                  fetched_commits |-> fetched_commits, events |-> events]>>
    /\ pc' = "start"
    /\ page_num' = 1
    /\ acc' = <<>>
    /\ requests' = <<>>
    /\ responses' = <<>>
    /\ all_repos' = <<>>
    /\ repo_idx' = 1
    /\ commits' = <<>>
    /\ events' = <<>>
    /\ event_idx' = 1
    /\ repos' = <<>>
    /\ weekly_commits' = [i \in 1..WEEKS |-> 0]
    /\ pages_sites' = <<>>
    /\ seen' = {}
    /\ fetched_commits' = <<>>
    /\ UNCHANGED <<env, output>>

NextRerun == Next \/ Rerun

\* The environments the second run is studied on: records on both sides of
\* the cutoff and of "now", in listings and feeds of at most two records
RerunCommitLists == {c \in CommitLists : Len(c) <= 2}
RerunEvents ==
    {e \in EventCatalog : e.repo = AppRepo.full_name /\ e.created_at # Iso(tOld)}
RerunEnvs ==
    {e \in CommitsEnvs :
        /\ e.repos \in {<<AppRepo>>, <<AppRepo, LibRepo>>}
        /\ e.commits[AppRepo.full_name] \in RerunCommitLists}
    \cup {Environment(FALSE, <<>>, NoCommits, l) : l \in SeqsUpTo(RerunEvents, 2)}

InitRerun ==
    /\ env \in RerunEnvs
    /\ now = now0
    /\ output = <<>>
    /\ prev = <<>>
    /\ StartState

SpecRerun == InitRerun /\ [][NextRerun]_vars

\* ====================================================== the claims
doc == output[1]
\* The records of the pages among the responses rs, in request order
RECURSIVE Received(_)
Received(rs) ==
    IF rs = <<>> THEN <<>>
    ELSE (IF Head(rs).kind = "page" THEN Head(rs).records ELSE <<>>)
         \o Received(Tail(rs))
Fetching == pc \in {"fetch_all_repos", "fetch_repo_commits", "fetch_public_events"}
\* The histogram with n more in the bucket of index 11 - floor(age / week),
\* when that index is one of 0..11
FloorBucket(weekly, now_, date, n) ==
    LET index == (WEEKS - 1) - ((now_ - fromisoformat(date)) \div week_seconds)
    IN  IF index \in 0..(WEEKS - 1)
        THEN [weekly EXCEPT ![index + 1] = @ + n]
        ELSE weekly
RECURSIVE FloorBuckets(_, _, _)
FloorBuckets(weekly, now_, cs) ==
    IF cs = <<>> THEN weekly
    ELSE FloorBuckets(FloorBucket(weekly, now_, Head(cs).date, 1), now_, Tail(cs))
\* The histogram with n more in the bucket of index 11 - (age / week rounded
\* toward zero), when that index is one of 0..11
TruncBucket(weekly, now_, date, n) ==
    LET age == now_ - fromisoformat(date)
        weeks == IF age < 0 THEN -((-age) \div week_seconds) ELSE age \div week_seconds
        index == (WEEKS - 1) - weeks
    IN  IF index \in 0..(WEEKS - 1)
        THEN [weekly EXCEPT ![index + 1] = @ + n]
        ELSE weekly
RECURSIVE TruncBuckets(_, _, _)
TruncBuckets(weekly, now_, cs) ==
    IF cs = <<>> THEN weekly
    ELSE TruncBuckets(TruncBucket(weekly, now_, Head(cs).date, 1), now_, Tail(cs))
CommitsOf(d, k) == IF DictHas(d, k) THEN d[DictIdx(d, k)].commits ELSE 0
SeenDates(k) == {p[2] : p \in {q \in seen : q[1] = k}}
IsLatest(date, dates) ==
    date \in dates /\ \A other \in dates : ~SeqLess(date, other)

\* C1: at the end of a run the twelve buckets add up to the commits of all
\* the repository summaries of the document.
C1_BucketsSumToRepoCommits ==
    pc = "done" => SumSeq(doc.weeklyCommits) = SumCommits(doc.repos)

\* C2: a fetcher requests pages 1, 2, 3, ... in order, requests nothing after
\* a page that is short or empty, holds the records of the pages received in
\* request order, and the event fetcher requests at most three pages.
C2_PagedFetch ==
    /\ \A i \in 1..Len(requests) : requests[i] = i
    /\ \A i \in 1..(Len(requests) - 1) :
          responses[i].kind = "page" /\ Len(responses[i].records) = PerPage
    /\ pc # "crashed" => acc = Received(responses)
    /\ pc = "fetch_public_events" => Len(requests) <= 3

\* C3: an error raised while page k is requested ends the fetch without a
\* retry, is not passed on to the caller, and leaves the records of pages
\* 1..k-1 as the result; the run goes on instead of terminating.
C3_ErrorsAbsorbed ==
    (responses # <<>> /\ responses[Len(responses)].kind # "page") =>
        /\ pc # "crashed"
        /\ ~Fetching
        /\ acc = Received(SubSeq(responses, 1, Len(responses) - 1))

\* C4 as claimed: on both paths every record goes to the bucket
\* 11 - floor(age / 604800) when that index is in 0..11, and to no bucket
\* otherwise, so that a record later than "now" is discarded.
C4_FloorBucketIndex ==
    [][/\ (pc = "summarise" /\ commits # <<>>) =>
            weekly_commits' = FloorBuckets(weekly_commits, now, commits)
       /\ (pc = "for_event" /\ Qualifies(event, cutoff)) =>
            weekly_commits' = FloorBucket(weekly_commits, now, event.created_at,
                                          CommitCount(event))]_vars

\* C4 as amended: on both paths every record goes to the bucket
\* 11 - int(age / 604800), the quotient rounded toward zero, when that index
\* is in 0..11, and to no bucket otherwise: a record 12 weeks old or older, or
\* a week or more later than "now", goes to no bucket, and a record less
\* than a week later than "now" goes to bucket 11.
C4_TruncBucketIndex ==
    [][/\ (pc = "summarise" /\ commits # <<>>) =>
            weekly_commits' = TruncBuckets(weekly_commits, now, commits)
       /\ (pc = "for_event" /\ Qualifies(event, cutoff)) =>
            LET age == now - fromisoformat(event.created_at)
                n == CommitCount(event)
            IN  /\ weekly_commits' = TruncBucket(weekly_commits, now, event.created_at, n)
                /\ (age >= WEEKS * week_seconds \/ age <= -week_seconds) =>
                      weekly_commits' = weekly_commits
                /\ (-week_seconds < age /\ age < 0) =>
                      weekly_commits' = [weekly_commits EXCEPT ![WEEKS] = @ + n]]_vars

\* A commit 12 weeks old and a commit 3 seconds later than "now" have been
\* bucketed: the first is in no bucket, the second in bucket 11
C4_Witness ==
    /\ pc = "finalise"
    /\ fetched_commits = <<<<Commit(tCut), Commit(tFutNear)>>>>
    /\ weekly_commits = [i \in 1..WEEKS |-> IF i = WEEKS THEN 1 ELSE 0]

\* C5: a push event that passes the cutoff filter and carries no commit list
\* adds exactly 1 to its repository's commits and exactly 1 to one bucket.
C5_EmptyPushCountsOnce ==
    [][(pc = "for_event" /\ Qualifies(event, cutoff) /\ Len(event.commits) = 0) =>
          /\ CommitsOf(repos', event.repo) = CommitsOf(repos, event.repo) + 1
          /\ \E i \in 1..WEEKS :
                weekly_commits' = [weekly_commits EXCEPT ![i] = @ + 1]]_vars

\* The second run is over and was handed the data the first was handed
SameDataTwice ==
    /\ pc = "done"
    /\ prev # <<>>
    /\ all_repos = prev[1].all_repos
    /\ fetched_commits = prev[1].fetched_commits
    /\ events = prev[1].events
\* The timestamps of the records the run aggregated or filtered
RecordDates ==
    UNION {{fetched_commits[i][j].date : j \in 1..Len(fetched_commits[i])} :
             i \in 1..Len(fetched_commits)}
    \cup {events[i].created_at : i \in {k \in 1..Len(events) : events[k].type = "PushEvent"}}
\* Every record has the same week index, and is on the same side of the
\* cutoff, at both run times
SameWeeks ==
    \A d \in RecordDates :
        LET t == fromisoformat(d)
        IN  /\ IntTrunc(prev[1].now - t, week_seconds) = IntTrunc(now - t, week_seconds)
            /\ (t < prev[1].now - WEEKS * week_seconds) = (t < now - WEEKS * week_seconds)

\* C6 as claimed: two runs on the same data at different times differ in
\* generatedAt and agree on repos and weeklyCommits.
C6_RerunSameReposAndWeeks ==
    SameDataTwice =>
        /\ doc.generatedAt # prev[1].output.generatedAt
        /\ doc.repos = prev[1].output.repos
        /\ doc.weeklyCommits = prev[1].output.weeklyCommits

\* C6 as amended: two runs on the same data at different times differ in
\* generatedAt; repos agrees on the authenticated path; repos and
\* weeklyCommits agree when every record has the same week index
\* int(age / 604800), and is on the same side of the cutoff, at both times.
C6_RerunAmended ==
    SameDataTwice =>
        /\ doc.generatedAt # prev[1].output.generatedAt
        /\ token => doc.repos = prev[1].output.repos
        /\ SameWeeks =>
              /\ doc.repos = prev[1].output.repos
              /\ doc.weeklyCommits = prev[1].output.weeklyCommits

\* A second run one second later, on commits in two different weeks, that
\* wrote the same non-empty histogram
C6_Witness ==
    /\ SameDataTwice
    /\ SameWeeks
    /\ now = prev[1].now + 1
    /\ Len(doc.repos) = 2
    /\ Cardinality({i \in 1..WEEKS : doc.weeklyCommits[i] > 0}) = 2

\* C7: pages holds one entry per fetched repository that has Pages, is no
\* fork and is not <user>.github.io, whatever its commits, and no other
\* entry; the entries are in ascending order of the lowercased name.
C7_PagesExactAndSorted ==
    pc = "done" =>
        /\ \A n \in {r.name : r \in RepoCatalog} :
              Cardinality({i \in 1..Len(doc.pages) : doc.pages[i].name = n})
                = Cardinality({j \in 1..Len(all_repos) :
                      /\ all_repos[j].name = n
                      /\ all_repos[j].has_pages
                      /\ ~all_repos[j].fork
                      /\ n # GITHUB_USER \o GithubIoSuffix})
        /\ \A i \in 1..Len(doc.pages) : doc.pages[i].name \in {r.name : r \in RepoCatalog}
        /\ \A i \in 1..(Len(doc.pages) - 1) :
              ~SeqLess(lower(doc.pages[i + 1].name), lower(doc.pages[i].name))

\* A listing of "Blog", a fork and "app": the fork is left out, "app" comes
\* before "Blog", and "Blog" is there although it has no commits
C7_Witness ==
    /\ pc = "done"
    /\ all_repos = <<BlogRepo, LibRepo, AppRepo>>
    /\ fetched_commits[1] = <<>>
    /\ doc.pages = <<[name |-> app], [name |-> Blog]>>

\* C8: weeklyCommits has twelve non-negative entries, totalCommits is their
\* sum and activeWeeks the number of them above 0.
C8_TotalsMatchHistogram ==
    output # <<>> =>
        LET w == doc.weeklyCommits
        IN  /\ Len(w) = 12
            /\ \A i \in 1..Len(w) : w[i] >= 0
            /\ doc.totalCommits
                 = w[1] + w[2] + w[3] + w[4] + w[5] + w[6]
                   + w[7] + w[8] + w[9] + w[10] + w[11] + w[12]
            /\ doc.activeWeeks = Cardinality({i \in 1..Len(w) : w[i] > 0})

\* A document with commits in two weeks, one of them with two commits, and
\* a commit that no bucket holds
C8_Witness ==
    /\ pc = "done"
    /\ doc.activeWeeks = 2
    /\ doc.totalCommits = 3
    /\ SumCommits(doc.repos) > doc.totalCommits

\* C9: repos holds at most one record per full name, and no record has fewer
\* commits than the record after it.
C9_ReposUniqueAndDescending ==
    output # <<>> =>
        /\ \A i, j \in 1..Len(doc.repos) :
              doc.repos[i].fullName = doc.repos[j].fullName => i = j
        /\ \A i \in 1..(Len(doc.repos) - 1) :
              doc.repos[i].commits >= doc.repos[i + 1].commits

\* Two summaries, the one written first with fewer commits, are written out
\* with the larger first
C9_Witness ==
    /\ pc = "done"
    /\ Len(repos) = 2
    /\ repos[1].commits < repos[2].commits
    /\ doc.repos = <<repos[2], repos[1]>>

\* C10: a repository has a summary exactly when one of its records has been
\* aggregated, and the summary's lastActivity is then the latest, as strings,
\* of the timestamps of its records aggregated so far (so it never
\* decreases); a repository without fetched commits has no summary.
C10_LastActivityIsLatestSeen ==
    /\ \A i \in 1..Len(repos) :
          IsLatest(repos[i].lastActivity, SeenDates(repos[i].fullName))
    /\ \A k \in FullNames : DictHas(repos, k) <=> SeenDates(k) # {}
====
